---- MODULE Spec2Model ----
(***************************************************************************)
(* GnssAgent: a chat agent that wraps the RTKLIB executables rnx2rtkp and  *)
(* convbin behind a tool-calling loop.                                     *)
(*                                                                         *)
(*   src/main.py   the MessageGraph ("agent" and "tools" nodes) and the    *)
(*                 interactive loop that owns `history`                    *)
(*   src/tools.py  the two tool wrappers and chat_completion_request       *)
(*                                                                         *)
(* Three specifications share this module:                                 *)
(*   Spec       the conversation loop of main.py                           *)
(*   SpecTools  the tool wrappers rnx2rtkp and convbin of tools.py         *)
(*   SpecRetry  chat_completion_request under its tenacity decorator       *)
(***************************************************************************)
EXTENDS Integers, Sequences, FiniteSets, TLC

VARIABLES
    pc,        \* main.py: position of the program
    history,   \* main.py:64 `history`, the list main owns between turns
    state,     \* the MessageGraph state (list of messages) of the current turn
    trace,     \* observable events, in order (requests, replies, invocations)
    running,   \* number of external processes started and not yet returned
    invoked,   \* the tool calls handed to the ToolExecutor, in order
    \* tools.py, one call of a tool wrapper
    tpc,              \* position in the wrapper: called, running, returned, raised
    tool,             \* which wrapper is called
    input_files,      \* rnx2rtkp argument
    extra_commands,   \* rnx2rtkp argument
    file_to_convert,  \* convbin argument
    options,          \* convbin argument
    command,          \* the argument list given to subprocess.run
    output_file,      \* rnx2rtkp's local output_file
    result,           \* what subprocess.run returned: exit status, standard error
    output_str,       \* the summary the wrapper returns
    \* tools.py:212-266, chat_completion_request and the script that uses it
    rpc,              \* position in the script
    plan,             \* what the successive calls of the completion API will do
    api_calls,        \* calls of client.chat.completions.create made so far
    attempts,         \* attempts made by the latest chat_completion_request
    messages,         \* the script's message list
    chat_response,    \* what the latest chat_completion_request returned
    function_name,    \* the script's function_name, "undefined" until assigned
    propagated        \* an exception left chat_completion_request

loopVars == <<pc, history, state, trace, running, invoked>>

toolVars == <<tpc, tool, input_files, extra_commands, file_to_convert, options,
              command, output_file, result, output_str>>

retryVars == <<rpc, plan, api_calls, attempts, messages, chat_response,
               function_name, propagated>>

vars == <<loopVars, toolVars, retryVars>>

-----------------------------------------------------------------------------
(* Bounds of the model.                                                    *)

\* longest message list explored
MaxHistory == 7
\* most tool-call requests in one completion reply
MaxCalls == 2
\* most whitespace-separated words in extra_commands
MaxFlags == 3
\* most pieces a captured standard-error text is made of
MaxErrWords == 2

-----------------------------------------------------------------------------
(* Generic helpers.                                                        *)

Last(s) == s[Len(s)]

IsPrefix(s, t) == Len(s) <= Len(t) /\ SubSeq(t, 1, Len(s)) = s

\* number of positions lo..hi of s that hold e
Count(s, e, lo, hi) == Cardinality({k \in lo..hi : k \in DOMAIN s /\ s[k] = e})

Min(S) == CHOOSE x \in S : \A y \in S : x <= y

-----------------------------------------------------------------------------
(* Messages (langchain_core.messages as main.py uses them).                *)
(* calls is additional_kwargs["tool_calls"]; <<>> stands for the key being *)
(* absent, which is how a reply without tool calls arrives.                *)

SystemMessage == [role |-> "system", content |-> "prompt", calls |-> <<>>, tool_call_id |-> 0]

HumanMessage(content) == [role |-> "user", content |-> content, calls |-> <<>>, tool_call_id |-> 0]

AIMessage(content, calls) == [role |-> "assistant", content |-> content, calls |-> calls, tool_call_id |-> 0]

\* variant: a registry that resolves every name the model may put in a tool call
AnyToolName == {"rnx2rtkp", "convbin", "unregistered"}

\* tools.py:207
ALL_TOOLS == {"rnx2rtkp", "convbin"}

\* names the model may put in a tool call: the registered ones and one that is not
ToolNames == ALL_TOOLS \cup {"unregistered"}

\* what the user may type at the prompt
UserInputs == {"q", "Q", "hello"}

\* Tool-call identifiers are issued by the completion API and are unique:
\* the k-th call of the reply appended at position p gets p * (MaxCalls + 2) + k.
CallId(p, k) == p * (MaxCalls + 2) + k

ToolCalls(p, names) == [k \in 1..Len(names) |-> [id |-> CallId(p, k), name |-> names[k]]]

NameSeqs == UNION {[1..n -> ToolNames] : n \in 1..MaxCalls}

\* the replies the completion API can give when the reply lands at position p
Replies(p) == {AIMessage("text", <<>>)} \cup {AIMessage("", ToolCalls(p, ns)) : ns \in NameSeqs}

-----------------------------------------------------------------------------
(* The graph of main.py:52-62.                                             *)

END == "end"

\* main.py:16-22
is_message(msgs) ==
    LET last_message == Last(msgs) IN
    IF last_message.calls = <<>> THEN "message" ELSE "function_call"

\* main.py:55-58: the conditional edges out of "agent"
AgentEdge(route) == IF route = "function_call" THEN "tools" ELSE END

\* variant: the tools node is wired to END instead of back to the agent
ToolsEdgeToEnd == END

\* main.py:59: workflow.add_edge("tools", "agent")
ToolsEdge == "agent"

\* MessageGraph's reducer: what a node returns is appended to the state
add_messages(left, right) == left \o right

\* variant: the tool result is tagged with the id of the last tool call
ToolCallIdOfLast(last_message) == Last(last_message.calls).id

\* main.py:28 and 41: tool_call = tool_calls[0]; tool_call_id = tool_call["id"]
ToolCallId(last_message) == last_message.calls[1].id

\* main.py:28-36: the ToolInvocation is built from tool_calls[0]
InvokedCall(last_message) == last_message.calls[1]

\* main.py:40-44
ToolMessage(id, content) == [role |-> "tool", content |-> content, calls |-> <<>>, tool_call_id |-> id]

\* variant: call_tool builds the ToolMessage and does not return it
call_tool_returns_nothing(tool_messages) == <<>>

\* main.py:45: what call_tool hands back to the graph
call_tool_return(tool_messages) == <<tool_messages>>

\* variant: the final output holds only the messages added during the turn
OutputEndNewOnly(final) == SubSeq(final, Len(history) + 1, Len(final))

\* main.py:83: output[END], the final state of the graph
OutputEnd(final) == final

ResultEvents(ret) == [k \in DOMAIN ret |-> "result"]

-----------------------------------------------------------------------------
(* Actions of the conversation loop.                                       *)

LoopInit ==
    /\ pc = "input"
    /\ history = <<SystemMessage>>
    /\ state = <<SystemMessage>>
    /\ trace = <<>>
    /\ running = 0
    /\ invoked = <<>>

\* main.py:66-70: one line is read; q/Q ends the session, anything else is
\* appended to history and the graph is started on it
UserInput ==
    /\ pc = "input"
    /\ UNCHANGED <<toolVars, retryVars>>
    /\ \E user \in UserInputs :
        IF user \in {"q", "Q"}
        THEN /\ pc' = "done"
             /\ trace' = Append(trace, "quit")
             /\ UNCHANGED <<history, state, running, invoked>>
        ELSE /\ Len(history) + 2 <= MaxHistory
             /\ history' = Append(history, HumanMessage(user))
             /\ state' = history'
             /\ pc' = "agent"
             /\ trace' = Append(trace, "user")
             /\ UNCHANGED <<running, invoked>>

\* main.py:53 node "agent" and its conditional edges: the state is sent to the
\* completion API, the reply is appended, is_message routes
Agent ==
    /\ pc = "agent"
    /\ UNCHANGED <<toolVars, retryVars>>
    /\ \E reply \in Replies(Len(state) + 1) :
        /\ Len(state) + (IF reply.calls = <<>> THEN 1 ELSE 3) <= MaxHistory
        /\ state' = add_messages(state, <<reply>>)
        /\ trace' = trace \o <<"req", IF reply.calls = <<>> THEN "reply_msg" ELSE "reply_tc">>
        /\ pc' = AgentEdge(is_message(state'))
    /\ UNCHANGED <<history, running, invoked>>

\* main.py:53: the completion request raises; nothing in main.py catches it
AgentRaise ==
    /\ pc = "agent"
    /\ UNCHANGED <<toolVars, retryVars>>
    /\ trace' = trace \o <<"req", "raise">>
    /\ pc' = "crashed"
    /\ UNCHANGED <<history, state, running, invoked>>

\* events of n tool calls handled one after the other
EventsOfAll(n) == [k \in 1..(3 * n) |-> IF k % 3 = 1 THEN "invoke" ELSE IF k % 3 = 2 THEN "exec" ELSE "result"]

\* variant: a "tools" node that handles every tool call of the reply, not only the first
CallToolAll ==
    /\ pc = "tools"
    /\ UNCHANGED <<toolVars, retryVars>>
    /\ LET calls == Last(state).calls IN
        /\ state' = state \o [k \in 1..Len(calls) |-> ToolMessage(calls[k].id, "success")]
        /\ invoked' = invoked \o calls
        /\ trace' = trace \o EventsOfAll(Len(calls))
    /\ pc' = "agent"
    /\ UNCHANGED <<history, running>>

\* main.py:25-38 node "tools", up to the call of the tool.
\* json.loads (line 31) or the tool's argument validation may raise; a name the
\* ToolExecutor does not know runs nothing and yields its "is not a valid tool"
\* text as the response; a registered tool starts its external process.
CallTool ==
    /\ pc = "tools"
    /\ UNCHANGED <<toolVars, retryVars>>
    /\ LET last_message == Last(state) IN
       \E setup \in {"ok", "raise"} :
        IF last_message.calls = <<>> \/ setup = "raise"
        THEN /\ pc' = "crashed"
             /\ trace' = Append(trace, "raise")
             /\ UNCHANGED <<history, state, running, invoked>>
        ELSE IF InvokedCall(last_message).name \in ALL_TOOLS
        THEN /\ pc' = "subprocess"
             /\ running' = running + 1
             /\ invoked' = Append(invoked, InvokedCall(last_message))
             /\ trace' = trace \o <<"invoke", "exec">>
             /\ UNCHANGED <<history, state>>
        ELSE LET ret == call_tool_return(ToolMessage(ToolCallId(last_message), "invalid_tool")) IN
             /\ state' = add_messages(state, ret)
             /\ invoked' = Append(invoked, InvokedCall(last_message))
             /\ trace' = trace \o <<"invoke">> \o ResultEvents(ret)
             /\ pc' = ToolsEdge
             /\ UNCHANGED <<history, running>>

\* main.py:38-45 with tools.py:88-95 / 198-204: the external process returns,
\* the wrapper's summary (success text or captured standard error) becomes the
\* ToolMessage; an exception in the wrapper (executable missing, undecodable
\* output) propagates
ToolReturn ==
    /\ pc = "subprocess"
    /\ UNCHANGED <<toolVars, retryVars>>
    /\ running' = running - 1
    /\ UNCHANGED invoked
    /\ LET last_message == Last(state) IN
       \E outcome \in {"success", "stderr", "raise"} :
        IF outcome = "raise"
        THEN /\ pc' = "crashed"
             /\ trace' = Append(trace, "raise")
             /\ UNCHANGED <<history, state>>
        ELSE LET ret == call_tool_return(ToolMessage(ToolCallId(last_message), outcome)) IN
             /\ state' = add_messages(state, ret)
             /\ trace' = trace \o ResultEvents(ret)
             /\ pc' = ToolsEdge
             /\ UNCHANGED history

\* main.py:71-83: the stream ends with {END: final state}; history is rebound
EndTurn ==
    /\ pc = END
    /\ UNCHANGED <<toolVars, retryVars>>
    /\ history' = OutputEnd(state)
    /\ pc' = "input"
    /\ UNCHANGED <<state, trace, running, invoked>>

-----------------------------------------------------------------------------
(* Text.  A Python str or bytes value is a sequence of one-character       *)
(* strings, so that splitting, searching and formatting are computed and   *)
(* not assumed.  "xFF" stands for one byte that is not valid UTF-8.        *)

Whitespace == {" ", "\n", "\t"}

\* str.join
RECURSIVE Join(_, _)
Join(parts, sep) ==
    IF parts = <<>> THEN <<>>
    ELSE IF Len(parts) = 1 THEN parts[1]
    ELSE parts[1] \o sep \o Join(Tail(parts), sep)

\* first position where sub occurs in s, 0 when it does not (str.find + 1)
Find(sub, s) ==
    LET hits == {i \in 1..(Len(s) - Len(sub) + 1) : SubSeq(s, i, i + Len(sub) - 1) = sub} IN
    IF hits = {} THEN 0 ELSE Min(hits)

\* Python's `sub in s`
IsSubstring(sub, s) == Find(sub, s) # 0

\* str.split() without arguments: the maximal runs of non-whitespace
RECURSIVE PySplit(_)
PySplit(s) ==
    IF s = <<>> THEN <<>>
    ELSE IF s[1] \in Whitespace THEN PySplit(Tail(s))
    ELSE LET ws == {i \in DOMAIN s : s[i] \in Whitespace}
             n == IF ws = {} THEN Len(s) ELSE Min(ws) - 1
         IN <<SubSeq(s, 1, n)>> \o PySplit(SubSeq(s, n + 1, Len(s)))

\* str.split(sep): cut at each occurrence of sep, left to right
RECURSIVE PySplitOn(_, _)
PySplitOn(s, sep) ==
    LET i == Find(sep, s) IN
    IF i = 0 THEN <<s>>
    ELSE <<SubSeq(s, 1, i - 1)>> \o PySplitOn(SubSeq(s, i + Len(sep), Len(s)), sep)

\* str.strip()
RECURSIVE PyStrip(_)
PyStrip(s) ==
    IF s = <<>> THEN s
    ELSE IF s[1] \in Whitespace THEN PyStrip(Tail(s))
    ELSE IF Last(s) \in Whitespace THEN PyStrip(SubSeq(s, 1, Len(s) - 1))
    ELSE s

\* os.path on Windows (ntpath), for paths without a drive letter
PathSeps == {"\\", "/"}

LastSep(p) ==
    LET seps == {i \in DOMAIN p : p[i] \in PathSeps} IN
    IF seps = {} THEN 0 ELSE CHOOSE i \in seps : \A j \in seps : j <= i

RECURSIVE RStripSeps(_)
RStripSeps(p) ==
    IF p # <<>> /\ Last(p) \in PathSeps THEN RStripSeps(SubSeq(p, 1, Len(p) - 1)) ELSE p

\* os.path.dirname
dirname(p) ==
    LET head == SubSeq(p, 1, LastSep(p)) IN
    IF RStripSeps(head) = <<>> THEN head ELSE RStripSeps(head)

\* os.path.basename
basename(p) == SubSeq(p, LastSep(p) + 1, Len(p))

\* os.path.join(a, b) for a relative b
PathJoin(a, b) ==
    IF a # <<>> /\ Last(a) \notin PathSeps THEN a \o <<"\\">> \o b ELSE a \o b

\* repr() of one byte inside a bytes literal
EscapeByte(c) ==
    IF c = "\n" THEN <<"\\", "n">>
    ELSE IF c = "\t" THEN <<"\\", "t">>
    ELSE IF c = "\\" THEN <<"\\", "\\">>
    ELSE IF c = "xFF" THEN <<"\\", "x", "f", "f">>
    ELSE <<c>>

RECURSIVE EscapeBytes(_)
EscapeBytes(b) == IF b = <<>> THEN <<>> ELSE EscapeByte(b[1]) \o EscapeBytes(Tail(b))

\* what an f-string makes of a bytes value: its repr, b'...' with escapes
BytesRepr(b) == <<"b", "'">> \o EscapeBytes(b) \o <<"'">>

\* bytes.decode() succeeds only on valid UTF-8
Decodable(b) == \A i \in DOMAIN b : b[i] # "xFF"

\* bytes.decode() of valid ASCII
Decode(b) == b

-----------------------------------------------------------------------------
(* The tool wrappers of tools.py.                                          *)

\* tools.py:20
RTKLIB_FOLDER ==
    <<"C", ":", "\\", "G", "N", "S", "S", "\\", "R", "T", "K", "L", "I", "B",
      "_", "b", "i", "n", "-", "r", "t", "k", "l", "i", "b", "_", "2", ".",
      "4", ".", "3", "\\", "b", "i", "n">>

\* tools.py:75
rnx2rtkp_path ==
    PathJoin(RTKLIB_FOLDER,
             <<"r", "n", "x", "2", "r", "t", "k", "p", ".", "e", "x", "e">>)

\* tools.py:193
convbin_path ==
    PathJoin(RTKLIB_FOLDER,
             <<"c", "o", "n", "v", "b", "i", "n", ".", "e", "x", "e">>)

FlagO == <<"-", "o">>

W_processing ==
    <<"p", "r", "o", "c", "e", "s", "s", "i", "n", "g">>

W_error ==
    <<"e", "r", "r", "o", "r">>

\* an Optional[str] argument: None, or a string
None == [some |-> FALSE, val |-> <<>>]

Some(s) == [some |-> TRUE, val |-> s]

\* Python truthiness of an Optional[str]: None and "" are false
Truthy(opt) == opt.some /\ opt.val # <<>>

\* tools.py:84-85: the default output file, beside the first input file
DefaultOutputFile(files) ==
    PathJoin(dirname(files[1]),
             PySplitOn(basename(files[1]), <<".">>)[1] \o
             <<"_", "p", "v", "t", "_", "o", "u", "t", "p", "u", "t", ".",
               "p", "o", "s">>)

\* tools.py:81-85
Rnx2rtkpOutputFile(files, extra) ==
    IF Truthy(extra) /\ IsSubstring(FlagO, extra.val)
    THEN PyStrip(PySplitOn(extra.val, FlagO)[2])
    ELSE DefaultOutputFile(files)

\* tools.py:76-79 and 87
Rnx2rtkpCommand(files, extra) ==
    <<rnx2rtkp_path>>
        \o files
        \o (IF Truthy(extra) THEN PySplit(extra.val) ELSE <<>>)
        \o <<FlagO, Rnx2rtkpOutputFile(files, extra)>>

Rnx2rtkpHeader ==
    <<"T", "h", "e", " ", "o", "u", "t", "p", "u", "t", " ", "f", "r", "o",
      "m", " ", "r", "n", "x", "2", "r", "t", "k", "p", " ", "e", "x", "e",
      "c", "u", "t", "a", "b", "l", "e", " ", "i", "s", " ", "a", "s", " ",
      "f", "o", "l", "l", "o", "w", "s", ":", "\n">>

Rnx2rtkpSuccessText ==
    <<"T", "h", "e", " ", "g", "e", "n", "e", "r", "a", "t", "e", "d", " ",
      "P", "V", "T", " ", "o", "u", "t", "p", "u", "t", " ", "f", "i", "l",
      "e", " ", "i", "s", " ", "s", "u", "c", "c", "e", "s", "s", "f", "u",
      "l", "l", "y", " ", "g", "e", "n", "e", "r", "a", "t", "e", "d", " ",
      "a", "t", ":", " ">>

StandardErrorText ==
    <<"S", "t", "a", "n", "d", "a", "r", "d", " ", "e", "r", "r", "o", "r",
      ":", "\n">>

\* variant: success decided by the exit status
Rnx2rtkpSucceededByExitStatus(res) == res.returncode = 0

\* tools.py:91: the run counts as successful when standard error has 'processing'
Rnx2rtkpSucceeded(res) == IsSubstring(W_processing, res.stderr)

\* tools.py:90-95
Rnx2rtkpSummary(out, res) ==
    Rnx2rtkpHeader \o
    (IF Rnx2rtkpSucceeded(res)
     THEN Rnx2rtkpSuccessText \o out \o <<"\n">>
     ELSE StandardErrorText \o BytesRepr(res.stderr) \o <<"\n">>)

\* tools.py:194-196
ConvbinCommand(file, opts) ==
    <<convbin_path, file>> \o (IF Truthy(opts) THEN PySplit(opts.val) ELSE <<>>)

ConvbinHeader ==
    <<"T", "h", "e", " ", "o", "u", "t", "p", "u", "t", " ", "f", "r", "o",
      "m", " ", "c", "o", "n", "v", "b", "i", "n", " ", "e", "x", "e", "c",
      "u", "t", "a", "b", "l", "e", " ", "i", "s", " ", "a", "s", " ", "f",
      "o", "l", "l", "o", "w", "s", ":", "\n">>

ConvbinSuccessText ==
    <<"T", "h", "e", " ", "c", "o", "n", "v", "e", "r", "s", "i", "o", "n",
      " ", "i", "s", " ", "s", "u", "c", "c", "e", "s", "s", "f", "u", "l",
      "!", " ", "O", "u", "t", "p", "u", "t", " ", "f", "i", "l", "e", "s",
      " ", "a", "r", "e", " ", "i", "n", " ", "f", "o", "l", "d", "e", "r",
      " ">>

\* tools.py:200
ConvbinSucceeded(res) ==
    res.returncode = 0 /\ ~IsSubstring(W_error, Decode(res.stderr))

\* tools.py:199-204
ConvbinSummary(file, res) ==
    ConvbinHeader \o
    (IF ConvbinSucceeded(res)
     THEN ConvbinSuccessText \o dirname(file) \o <<" ", "\n">>
     ELSE StandardErrorText \o BytesRepr(res.stderr) \o <<"\n">>)

\* the first input file, and lists of input files
InputPaths ==
    {<<"a", ".", "o">>,
     <<"d", "/", "a", ".", "b", ".", "o">>,
     <<"d", "\\", "r">>}

InputFileLists ==
    {<<<<"a", ".", "o">>>>,
     <<<<"d", "/", "a", ".", "b", ".", "o">>, <<"a", ".", "o">>>>,
     <<<<"d", "\\", "r">>, <<"d", "/", "a", ".", "b", ".", "o">>>>}

\* words the model may put in extra_commands: the -o flag, a path, another
\* flag, and a path that has "-o" inside it
FlagWords == {FlagO, <<"f", ".", "p">>, <<"-", "x">>, <<"m", "-", "o">>}

ExtraCommands ==
    {None} \cup
    {Some(Join(ws, <<" ">>)) : ws \in UNION {[1..n -> FlagWords] : n \in 0..MaxFlags}}

ConvbinOptions ==
    {None,
     Some(<<"-", "r", " ", "u", "b", "x">>),
     Some(<<"-", "d", " ", "o", "u", "t">>)}

ErrWords == {W_processing, W_error, <<"\n">>, <<"xFF">>}

\* captured standard-error bytes
StderrTexts == {Join(ws, <<>>) : ws \in UNION {[1..n -> ErrWords] : n \in 0..MaxErrWords}}

ExitStatuses == {0, 1}

NoResult == [returncode |-> 0, stderr |-> <<>>]

ToolsInit ==
    /\ tpc = "called"
    /\ tool \in {"rnx2rtkp", "convbin"}
    /\ IF tool = "rnx2rtkp"
       THEN /\ input_files \in InputFileLists
            /\ extra_commands \in ExtraCommands
            /\ file_to_convert = <<>>
            /\ options = None
       ELSE /\ input_files = <<>>
            /\ extra_commands = None
            /\ file_to_convert \in InputPaths
            /\ options \in ConvbinOptions
    /\ command = <<>>
    /\ output_file = <<>>
    /\ result = NoResult
    /\ output_str = <<>>

ToolsIdle ==
    /\ tpc = "idle"
    /\ tool = "none"
    /\ input_files = <<>>
    /\ extra_commands = None
    /\ file_to_convert = <<>>
    /\ options = None
    /\ command = <<>>
    /\ output_file = <<>>
    /\ result = NoResult
    /\ output_str = <<>>

\* tools.py:75-88: the command is built and the executable started
Rnx2rtkpStart ==
    /\ tpc = "called"
    /\ tool = "rnx2rtkp"
    /\ command' = Rnx2rtkpCommand(input_files, extra_commands)
    /\ output_file' = Rnx2rtkpOutputFile(input_files, extra_commands)
    /\ tpc' = "running"
    /\ UNCHANGED <<tool, input_files, extra_commands, file_to_convert, options, result, output_str>>
    /\ UNCHANGED <<loopVars, retryVars>>

\* tools.py:88-95: the executable ends; the summary is made and returned
Rnx2rtkpFinish ==
    /\ tpc = "running"
    /\ tool = "rnx2rtkp"
    /\ \E rc \in ExitStatuses, err \in StderrTexts :
        /\ result' = [returncode |-> rc, stderr |-> err]
        /\ output_str' = Rnx2rtkpSummary(output_file, result')
    /\ tpc' = "returned"
    /\ UNCHANGED <<tool, input_files, extra_commands, file_to_convert, options, command, output_file>>
    /\ UNCHANGED <<loopVars, retryVars>>

\* tools.py:193-198
ConvbinStart ==
    /\ tpc = "called"
    /\ tool = "convbin"
    /\ command' = ConvbinCommand(file_to_convert, options)
    /\ tpc' = "running"
    /\ UNCHANGED <<tool, input_files, extra_commands, file_to_convert, options, output_file, result, output_str>>
    /\ UNCHANGED <<loopVars, retryVars>>

\* tools.py:198-204: line 200 decodes standard error only when the exit
\* status is 0, and decode() raises on bytes that are not UTF-8
ConvbinFinish ==
    /\ tpc = "running"
    /\ tool = "convbin"
    /\ \E rc \in ExitStatuses, err \in StderrTexts :
        /\ result' = [returncode |-> rc, stderr |-> err]
        /\ IF rc = 0 /\ ~Decodable(err)
           THEN /\ tpc' = "raised"
                /\ UNCHANGED output_str
           ELSE /\ tpc' = "returned"
                /\ output_str' = ConvbinSummary(file_to_convert, result')
    /\ UNCHANGED <<tool, input_files, extra_commands, file_to_convert, options, command, output_file>>
    /\ UNCHANGED <<loopVars, retryVars>>

-----------------------------------------------------------------------------
(* chat_completion_request (tools.py:212-225) and the script of            *)
(* tools.py:228-266 that calls it twice.                                   *)

\* tools.py:212: stop_after_attempt(3)
StopAfterAttempt == 3

\* a call of the completion API raises, replies with text, or replies with a
\* tool call naming a tool
ApiOutcomes == {"raise", "text"} \cup ALL_TOOLS

\* tools.py:214-225, the undecorated function: the except clause catches the
\* exception of the API call and RETURNS it
ChatCompletionBody(api) ==
    IF api = "raise"
    THEN [kind |-> "returned", value |-> "exception"]
    ELSE [kind |-> "returned", value |-> api]

\* tools.py:212, tenacity's @retry around the function: attempt n uses the
\* k-th planned API outcome; an attempt that raises is repeated until
\* stop_after_attempt, then RetryError is raised; an attempt that returns
\* ends the call with its value
RECURSIVE Retrying(_, _)
Retrying(n, k) ==
    LET out == ChatCompletionBody(plan[k]) IN
    IF out.kind = "raised"
    THEN IF n >= StopAfterAttempt
         THEN [kind |-> "raised", value |-> "RetryError", attempts |-> n]
         ELSE Retrying(n + 1, k + 1)
    ELSE [kind |-> "returned", value |-> out.value, attempts |-> n]

RetryInit ==
    /\ rpc = "request1"
    /\ plan \in [1..(2 * StopAfterAttempt) -> ApiOutcomes]
    /\ api_calls = 0
    /\ attempts = 0
    /\ messages = <<"system", "user1">>
    /\ chat_response = "none"
    /\ function_name = "undefined"
    /\ propagated = FALSE

RetryIdle ==
    /\ rpc = "idle"
    /\ plan = <<>>
    /\ api_calls = 0
    /\ attempts = 0
    /\ messages = <<>>
    /\ chat_response = "none"
    /\ function_name = "undefined"
    /\ propagated = FALSE

\* tools.py:238 and 245: chat_response = chat_completion_request(messages, ...)
Request ==
    /\ rpc \in {"request1", "request2"}
    /\ LET r == Retrying(1, api_calls + 1) IN
        /\ attempts' = r.attempts
        /\ api_calls' = api_calls + r.attempts
        /\ IF r.kind = "raised"
           THEN /\ propagated' = TRUE
                /\ rpc' = "crashed"
                /\ UNCHANGED chat_response
           ELSE /\ chat_response' = r.value
                /\ rpc' = (IF rpc = "request1" THEN "append" ELSE "inspect")
                /\ UNCHANGED propagated
    /\ UNCHANGED <<plan, messages, function_name>>
    /\ UNCHANGED <<loopVars, toolVars>>

\* tools.py:242-243: an exception object has no .choices (AttributeError)
AppendReply ==
    /\ rpc = "append"
    /\ IF chat_response = "exception"
       THEN /\ rpc' = "crashed"
            /\ UNCHANGED messages
       ELSE /\ messages' = messages \o <<chat_response, "user2">>
            /\ rpc' = "request2"
    /\ UNCHANGED <<plan, api_calls, attempts, chat_response, function_name, propagated>>
    /\ UNCHANGED <<loopVars, toolVars>>

\* tools.py:250-257
Inspect ==
    /\ rpc = "inspect"
    /\ IF chat_response = "exception"
       THEN /\ rpc' = "crashed"
            /\ UNCHANGED function_name
       ELSE /\ rpc' = "invoke"
            /\ function_name' = (IF chat_response \in ALL_TOOLS THEN chat_response ELSE function_name)
    /\ UNCHANGED <<plan, api_calls, attempts, messages, chat_response, propagated>>
    /\ UNCHANGED <<loopVars, toolVars>>

\* tools.py:260-266: function_name is unbound after a text reply (NameError)
InvokeTool ==
    /\ rpc = "invoke"
    /\ rpc' = (IF function_name = "undefined" THEN "crashed" ELSE "finished")
    /\ UNCHANGED <<plan, api_calls, attempts, messages, chat_response, function_name, propagated>>
    /\ UNCHANGED <<loopVars, toolVars>>

LoopIdle ==
    /\ pc = "idle"
    /\ history = <<>>
    /\ state = <<>>
    /\ trace = <<>>
    /\ running = 0
    /\ invoked = <<>>

-----------------------------------------------------------------------------
(* The specifications.                                                     *)

Init == LoopInit /\ ToolsIdle /\ RetryIdle

Next ==
    \/ UserInput
    \/ Agent
    \/ AgentRaise
    \/ CallTool
    \/ ToolReturn
    \/ EndTurn

Spec == Init /\ [][Next]_vars

InitTools == LoopIdle /\ ToolsInit /\ RetryIdle

NextTools ==
    \/ Rnx2rtkpStart
    \/ Rnx2rtkpFinish
    \/ ConvbinStart
    \/ ConvbinFinish

SpecTools == InitTools /\ [][NextTools]_vars

InitRetry == LoopIdle /\ ToolsIdle /\ RetryInit

NextRetry ==
    \/ Request
    \/ AppendReply
    \/ Inspect
    \/ InvokeTool

SpecRetry == InitRetry /\ [][NextRetry]_vars

-----------------------------------------------------------------------------
(* Properties of the conversation loop (checked under Spec).               *)

\* the names the claims call registered
Registered == {"rnx2rtkp", "convbin"}

\* position of the first completion request after position i of the trace
\* (one past the end when none was sent yet)
NextReq(i) ==
    LET later == {j \in DOMAIN trace : j > i /\ trace[j] = "req"} IN
    IF later = {} THEN Len(trace) + 1 ELSE Min(later)

ReqFollows(i) == \E j \in DOMAIN trace : j > i /\ trace[j] = "req"

\* the number of the invocation that event i of the trace is
InvocationNo(i) == Count(trace, "invoke", 1, i)

\* events of the current turn: those after the last user input
TurnStart == IF \E i \in DOMAIN trace : trace[i] = "user"
             THEN CHOOSE i \in DOMAIN trace : trace[i] = "user" /\ \A j \in DOMAIN trace : trace[j] = "user" => j <= i
             ELSE 0

\* C1: once a completion request follows a reply that carried a tool call,
\* exactly one tool invocation and exactly one appended tool-result message lie
\* between that reply and the request (so no request is sent before the result
\* is appended); after a reply without a tool call no tool is invoked.
C1_Alternation ==
    \A i \in DOMAIN trace :
        /\ (trace[i] = "reply_tc" /\ ReqFollows(i)) =>
              /\ Count(trace, "invoke", i + 1, NextReq(i) - 1) = 1
              /\ Count(trace, "result", i + 1, NextReq(i) - 1) = 1
              /\ trace[i + 1] = "invoke"
              /\ trace[NextReq(i) - 1] = "result"
        /\ trace[i] = "reply_msg" => Count(trace, "invoke", i + 1, NextReq(i) - 1) = 0

\* C1 witness: a tool-call reply was answered by a tool result and the next
\* completion request went out
C1_Witness ==
    \E i \in DOMAIN trace : trace[i] = "reply_tc" /\ ReqFollows(i) /\ trace[NextReq(i) - 1] = "result"

AtRest == pc \in {"agent", END, "input", "done"}

HasCalls(m) == m.role = "assistant" /\ m.calls # <<>>

\* the tool-result messages of a message list, in order
RECURSIVE ToolResultIds(_)
ToolResultIds(msgs) ==
    IF msgs = <<>> THEN <<>>
    ELSE LET rest == ToolResultIds(SubSeq(msgs, 1, Len(msgs) - 1)) IN
         IF Last(msgs).role = "tool" THEN Append(rest, Last(msgs).tool_call_id) ELSE rest

RECURSIVE InvokedIds(_)
InvokedIds(calls) ==
    IF calls = <<>> THEN <<>>
    ELSE Append(InvokedIds(SubSeq(calls, 1, Len(calls) - 1)), Last(calls).id)

\* C6 as stated: in the message list (and in history), every assistant message
\* with tool calls is immediately followed by the tool-result message of the
\* invoked call, and EVERY tool-call identifier of such a message has a
\* tool-result message with that identifier before the next request is sent.
C6_EveryCallAnswered ==
    AtRest =>
        \A k \in DOMAIN state :
            HasCalls(state[k]) =>
                /\ k + 1 \in DOMAIN state
                /\ state[k + 1].role = "tool"
                /\ \A c \in DOMAIN state[k].calls :
                    \E r \in DOMAIN state :
                        state[r].role = "tool" /\ state[r].tool_call_id = state[k].calls[c].id

\* C6 amended: every assistant message with tool calls is immediately followed
\* by a tool-result message whose identifier is that of the call that was
\* invoked, the first of the message; the tool-result messages answer exactly
\* the invoked calls, in order; the other calls of a multi-call reply get none.
C6_InvokedCallAnswered ==
    /\ AtRest =>
        /\ \A k \in DOMAIN state :
            HasCalls(state[k]) =>
                /\ k + 1 \in DOMAIN state
                /\ state[k + 1].role = "tool"
                /\ state[k + 1].tool_call_id = state[k].calls[1].id
                /\ \A c \in 2..Len(state[k].calls) :
                    \A r \in DOMAIN state : state[r].tool_call_id # state[k].calls[c].id
        /\ ToolResultIds(state) = InvokedIds(invoked)
    /\ \A k \in DOMAIN history :
        HasCalls(history[k]) =>
            /\ k + 1 \in DOMAIN history
            /\ history[k + 1].role = "tool"
            /\ history[k + 1].tool_call_id = history[k].calls[1].id

\* C6 witness: a reply with two tool calls was answered and ended up in history
C6_Witness ==
    \E k \in DOMAIN history :
        /\ HasCalls(history[k])
        /\ Len(history[k].calls) >= 2
        /\ k + 1 \in DOMAIN history
        /\ history[k + 1].role = "tool"

\* C7: every step leaves the history main holds, and the message list of the
\* graph, as a prefix of what it is afterwards, with the system message first.
C7_AppendOnly ==
    [][/\ IsPrefix(history, history')
       /\ IsPrefix(state, state')
       /\ history'[1] = SystemMessage
       /\ state'[1] = SystemMessage]_vars

\* C7 witness: history was rebound from the graph's final output after a turn
\* with a tool call, and a second turn has started on it
C7_Witness ==
    /\ pc = "agent"
    /\ Len(history) >= 6
    /\ \E k \in DOMAIN history : history[k].role = "tool"
    /\ Count(trace, "user", 1, Len(trace)) >= 2

\* C9: after any completion reply, at most one tool is invoked and at most one
\* external process is run before the next completion request, however many
\* tool calls the reply carried; never more than one process is outstanding.
C9_OneToolPerReply ==
    /\ running <= 1
    /\ \A i \in DOMAIN trace :
        trace[i] \in {"reply_tc", "reply_msg"} =>
            /\ Count(trace, "invoke", i + 1, NextReq(i) - 1) <= 1
            /\ Count(trace, "exec", i + 1, NextReq(i) - 1) <= 1

\* C9 witness: a reply with several tool calls is being handled, one external
\* process is outstanding
C9_Witness ==
    /\ pc = "subprocess"
    /\ running = 1
    /\ Len(Last(state).calls) >= 2
    /\ \A c \in DOMAIN Last(state).calls : Last(state).calls[c].name \in Registered

\* number of tool invocations of the current turn
TurnInvocations == Count(trace, "invoke", TurnStart + 1, Len(trace))

-----------------------------------------------------------------------------
(* Properties of the tool wrappers (checked under SpecTools).              *)

\* the summary claims success
ReportsSuccess ==
    IF tool = "rnx2rtkp"
    THEN IsSubstring(Rnx2rtkpSuccessText, output_str)
    ELSE IsSubstring(ConvbinSuccessText, output_str)

\* the output file of rnx2rtkp, the output folder of convbin
ResolvedOutputPath == IF tool = "rnx2rtkp" THEN output_file ELSE dirname(file_to_convert)

\* the failure marker the wrappers look for in standard error (tools.py:200)
HasFailureMarker == IsSubstring(W_error, result.stderr)

HasProcessingMarker == IsSubstring(W_processing, result.stderr)

RunFailed == result.returncode # 0 \/ HasFailureMarker

\* C5: for both tools, a failed run (non-zero exit status or failure marker)
\* gives a summary that contains the captured standard-error text and does
\* not report success.  The text counts as contained when it stands in the
\* summary as captured or in the escaped form the bytes literal gives it.
C5_FailureReported ==
    (tpc = "returned" /\ RunFailed) =>
        /\ ~ReportsSuccess
        /\ \/ IsSubstring(result.stderr, output_str)
           \/ IsSubstring(EscapeBytes(result.stderr), output_str)

\* the whitespace-separated words of extra_commands
ExtraFlags == IF extra_commands.some THEN PySplit(extra_commands.val) ELSE <<>>

\* positions of the -o flag among the words
OPositions == {i \in DOMAIN ExtraFlags : ExtraFlags[i] = FlagO}

\* C8: the command is the executable, the input files, the extra flags and an
\* output-file flag; without -o among the extra flags the output file is the
\* default beside the first input file; with '-o F' among them (once, F being
\* the word after it) the output file is exactly F, wherever '-o F' stands.
C8_CommandAndOutput ==
    (tool = "rnx2rtkp" /\ tpc \in {"running", "returned"}) =>
        /\ command = <<rnx2rtkp_path>> \o input_files \o ExtraFlags \o <<FlagO, output_file>>
        /\ OPositions = {} => output_file = DefaultOutputFile(input_files)
        /\ \A i \in OPositions :
            (OPositions = {i} /\ i + 1 \in DOMAIN ExtraFlags) => output_file = ExtraFlags[i + 1]

-----------------------------------------------------------------------------
(* Property of chat_completion_request (checked under SpecRetry).          *)

\* the first chat_completion_request of the script is over
FirstRequestOver == rpc = "append" \/ (rpc = "crashed" /\ Len(messages) = 2)

\* C2: when the completion API raises on three consecutive calls,
\* chat_completion_request makes exactly three attempts, then returns the
\* error as its response, and no exception leaves it.
C2_ThreeAttempts ==
    (FirstRequestOver /\ \A k \in 1..3 : plan[k] = "raise") =>
        /\ attempts = 3
        /\ api_calls = 3
        /\ chat_response = "exception"
        /\ ~propagated

====
